---------------------------- MODULE Spec2Model ----------------------------
(***************************************************************************)
(* A model of the single-decree Paxos replica of toy-paxos                 *)
(* (src/src/paxos/node.rs), of its ballots (src/src/paxos/seq_num.rs), of  *)
(* its datagrams (src/src/paxos/proposal.rs) and of the per-destination    *)
(* fan-out of the proxy (src/src/net_proxy.rs).                            *)
(*                                                                         *)
(* Every replica is a Node; node 0 is the client's pseudo-node, the return *)
(* address of client datagrams (src/src/shell.rs).  A message in flight is *)
(* one (src, dst, datagram) triple: the proxy opens one connection per     *)
(* destination of an Outgoing event, so the copies of a broadcast are      *)
(* delivered independently and in any order.  A message that is never      *)
(* delivered is a lost one.                                                *)
(*                                                                         *)
(* The client's Propose and Query are inputs of the handler that takes     *)
(* them: the action is the handler, the request is its argument.  A panic  *)
(* (a failed assert!, a panic!) ends the node's run() task: the node       *)
(* handles nothing afterwards.                                             *)
(*                                                                         *)
(* The specifications share the handlers and differ in the cluster and in  *)
(* what the client and the network do: Spec (two Proposes, three           *)
(* replicas), SpecRace (three Proposes, one replica unreachable), SpecLive *)
(* (one Propose, Query requests, no loss), SpecSolo (the cluster of one    *)
(* replica), SpecAdopt (a proposer collecting the promises of a majority   *)
(* of three that has accepted earlier ballots), SpecStray (one Propose,    *)
(* and Accepted responses that no replica sent) and SpecOrd (the order of  *)
(* SequenceNumber on its own).                                             *)
(***************************************************************************)
EXTENDS Naturals, FiniteSets, Sequences, Bags, TLC

\* ------------------------------------------------------------------ bounds

\* The replicas are 1..NumServers (start_servers(NumServers, port)).
NumServers == 3
\* The replicas the client sends Propose to are 1..NumProposers.  A replica
\* that never proposes appears in no ballot, so which replicas these are
\* does not matter, only how many.
NumProposers == 2
\* The millisecond clock reads 1..MaxClock, 1 when the first Propose is
\* handled.
MaxClock == 2
\* Propose requests the client sends in one execution of Spec and SpecLive.
MaxProposes == 2
\* Propose requests the client sends in one execution of SpecRace.
RaceProposes == 3
\* Propose requests the client sends to the replica it re-proposes to; it
\* sends at most one to any other replica.
MaxProposesPerNode == 2
\* Query requests the client sends in one execution of SpecLive.
MaxQueries == 2
\* The values the client proposes in SpecLive are 1..NumValues.
NumValues == 2
\* Response::Accepted datagrams a sender that is no replica writes in one
\* execution of SpecStray.
NumStray == 2
\* Propose requests the client sends in one execution of SpecStray.
StrayProposes == 1

\* ------------------------------------------------------------- identities

\* Console::propose and Console::query send with source 0.
Client == 0
Servers == 1..NumServers
Nodes == {Client} \cup Servers
Proposers == 1..NumProposers
\* The replica the client sends Propose to more than once.
Reproposer == CHOOSE n \in Proposers : \A i \in Proposers : n <= i
Values == 1..NumValues

\* Node::new(id, (1..server_num).collect(), ..): every node, the client's
\* pseudo-node included, has the replicas 1..N as its peers.
start_servers == [id \in Nodes |-> Servers]

\* ---------------------------------------------------------------- Option<T>

None == [some |-> FALSE]
Some(x) == [some |-> TRUE, val |-> x]
is_some(o) == o.some
is_none(o) == ~o.some
unwrap(o) == o.val

\* ----------------------------------------------------------- SequenceNumber

\* SequenceNumber::new(server_id, time_stamp)
SequenceNumber(server_id, time_stamp) ==
    [time_stamp |-> time_stamp, server_id |-> server_id]

\* std::cmp::Ordering
Less == 0 - 1
Equal == 0
Greater == 1

\* usize::cmp, u128::cmp
IntCmp(a, b) == IF a < b THEN Less ELSE IF a = b THEN Equal ELSE Greater

\* the fields compared in the order of SequenceNumber::new's arguments
MutCmpServerFirst(a, b) ==
    IF a.server_id = b.server_id
    THEN IntCmp(a.time_stamp, b.time_stamp)
    ELSE IntCmp(a.server_id, b.server_id)

\* Ord::cmp for SequenceNumber
cmp(a, b) ==
    IF a.time_stamp = b.time_stamp
    THEN IntCmp(a.server_id, b.server_id)
    ELSE IntCmp(a.time_stamp, b.time_stamp)

SeqLe(a, b) == cmp(a, b) <= 0
SeqLt(a, b) == cmp(a, b) < 0
SeqGe(a, b) == cmp(a, b) >= 0

\* AcceptedProposal::new(seq, val)
AcceptedProposal(seq, val) == [seq |-> seq, val |-> val]

\* ---------------------------------------------------------------- datagrams

ReqPrepare(seq) == [type |-> "Prepare", seq |-> seq]
ReqAccept(seq, value) == [type |-> "Accept", seq |-> seq, value |-> value]
ReqLearn(value) == [type |-> "Learn", value |-> value]
RespPrepare(accepted_proposal) ==
    [type |-> "RespPrepare", accepted |-> accepted_proposal]
RespAccepted(seq) == [type |-> "Accepted", seq |-> seq]
RespQuery(val) == [type |-> "RespQuery", val |-> val]

\* ------------------------------------------------------------------- state

VARIABLES
    peers_id,                \* Node.peers_id: HashSet<usize>
    proposal,                \* Node.proposal: Option<Proposal>
    last_promised,           \* Node.last_promised: Option<SequenceNumber>
    last_accepted_proposal,  \* Node.last_accepted_proposal
    chosen,                  \* Node.chosen: Option<ValueType>
    panicked,                \* "" while run() loops, else the panic that ended it
    msgs,                    \* bag of (src, dst, dgram) in flight
    clock,                   \* SystemTime::now() in milliseconds
    proposes,                \* per node, the Propose requests handled
    issued,                  \* per node, the ballots next_seq returned, in order
    proposed,                \* the values of the Propose requests handled
    accepts,                 \* every (acc, seq, val) an Accept handler recorded
    sentAccepts,             \* every (src, seq, value, dst) Accept emitted
    learned,                 \* the nodes that handled a Learn
    queries,                 \* per node, the Query requests handled
    promises,                \* every (acc, seq) a Prepare handler promised
    operands,                \* the SequenceNumbers handed to cmp
    orderings                \* the Orderings cmp returned for them

nodeVars == <<peers_id, proposal, last_promised, last_accepted_proposal, chosen,
              panicked>>
histVars == <<proposes, issued, proposed, accepts, sentAccepts, learned, queries,
              promises>>
ordVars == <<operands, orderings>>
vars == <<nodeVars, msgs, clock, histVars, ordVars>>

\* Node::new for every node, peers[id] the peer set it is given.
NodeInit(peers) ==
    /\ peers_id = peers
    /\ proposal = [n \in Nodes |-> None]
    /\ last_promised = [n \in Nodes |-> None]
    /\ last_accepted_proposal = [n \in Nodes |-> None]
    /\ chosen = [n \in Nodes |-> None]
    /\ panicked = [n \in Nodes |-> ""]
    /\ msgs = EmptyBag
    /\ clock = 1
    /\ proposes = [n \in Nodes |-> 0]
    /\ issued = [n \in Nodes |-> <<>>]
    /\ proposed = {}
    /\ accepts = {}
    /\ sentAccepts = {}
    /\ learned = {}
    /\ queries = [n \in Nodes |-> 0]
    /\ promises = {}

\* start_servers(NumServers, port); no SequenceNumber is compared outside
\* the handlers.
Init ==
    /\ NodeInit(start_servers)
    /\ operands = <<>>
    /\ orderings = <<>>

\* the half rounded up before the one is added
MutMajorityRoundedUp(n) == (Cardinality(peers_id[n]) + 1) \div 2 + 1

\* peers_id.len() / 2 + 1
Majority(n) == Cardinality(peers_id[n]) \div 2 + 1

\* ------------------------------------------------------------------ network

\* Proxy::serve_outflow: one send task per destination of an Outgoing event.
Outgoing(src, dst, dgram) ==
    SetToBag({[src |-> src, dst |-> d, dgram |-> dgram] : d \in dst})

\* the range taken one further: (src + 1..src + 2).collect()
MutUnicastNext(src) == {src + 1}

\* (src..src + 1).collect()
Unicast(src) == {src}

\* Node::run: the node takes the next Incoming while it has not panicked.
Receives(n, m) ==
    /\ BagIn(m, msgs)
    /\ m.dst = n
    /\ panicked[n] = ""

\* The mailbox without the Incoming the handler was called with.
Delivered(m) == msgs (-) SetToBag({m})

InFlight == BagToSet(msgs)

\* ------------------------------------------------------------- Node::next_seq

\* SequenceNumber::new(self.self_id, SystemTime::now()...as_millis()): the
\* reading is the primed clock, the time at which the handler runs.
next_seq(n) == SequenceNumber(n, clock')

\* ----------------------------------------------- handle_request: acceptor role

\* the guard of the promise left out
MutPromiseAlways(lp, seq) == TRUE

\* the operands of <= exchanged
MutPromiseGuardReversed(lp, seq) == is_none(lp) \/ SeqLe(seq, unwrap(lp))

\* self.last_promised.is_none() || self.last_promised.unwrap() <= seq
PromiseGuard(lp, seq) == is_none(lp) \/ SeqLe(unwrap(lp), seq)

\* Request::Prepare { seq }
HandlePrepare(n, m) ==
    /\ Receives(n, m)
    /\ m.dgram.type = "Prepare"
    /\ IF PromiseGuard(last_promised[n], m.dgram.seq)
       THEN /\ last_promised' = [last_promised EXCEPT ![n] = Some(m.dgram.seq)]
            /\ msgs' = Delivered(m) (+)
                 Outgoing(n, Unicast(m.src), RespPrepare(last_accepted_proposal[n]))
            /\ promises' = promises \cup {[acc |-> n, seq |-> m.dgram.seq]}
       ELSE /\ msgs' = Delivered(m)
            /\ UNCHANGED <<last_promised, promises>>
    /\ UNCHANGED <<peers_id, proposal, last_accepted_proposal, chosen, panicked,
                   clock, proposes, issued, proposed, accepts, sentAccepts,
                   learned, queries, ordVars>>

\* Request::Accept { seq, value }
HandleAccept(n, m) ==
    /\ Receives(n, m)
    /\ m.dgram.type = "Accept"
    /\ IF PromiseGuard(last_promised[n], m.dgram.seq)
       THEN /\ last_accepted_proposal' = [last_accepted_proposal EXCEPT
                 ![n] = Some(AcceptedProposal(m.dgram.seq, m.dgram.value))]
            /\ msgs' = Delivered(m) (+)
                 Outgoing(n, Unicast(m.src), RespAccepted(m.dgram.seq))
            /\ accepts' = accepts \cup
                 {[acc |-> n, seq |-> m.dgram.seq, val |-> m.dgram.value]}
       ELSE /\ msgs' = Delivered(m)
            /\ UNCHANGED <<last_accepted_proposal, accepts>>
    /\ UNCHANGED <<peers_id, proposal, last_promised, chosen, panicked, clock,
                   proposes, issued, proposed, sentAccepts, learned, queries,
                   promises, ordVars>>

\* ------------------------------------------------ handle_request: learner role

\* Request::Learn { value }: a failed assert!(chosen_value == value) ends run().
HandleLearn(n, m) ==
    /\ Receives(n, m)
    /\ m.dgram.type = "Learn"
    /\ msgs' = Delivered(m)
    /\ learned' = learned \cup {n}
    /\ IF is_some(chosen[n]) /\ unwrap(chosen[n]) # m.dgram.value
       THEN /\ panicked' = [panicked EXCEPT ![n] = "learn assertion"]
            /\ UNCHANGED chosen
       ELSE /\ chosen' = [chosen EXCEPT ![n] = Some(m.dgram.value)]
            /\ UNCHANGED panicked
    /\ UNCHANGED <<peers_id, proposal, last_promised, last_accepted_proposal,
                   clock, proposes, issued, proposed, accepts, sentAccepts, queries,
                   promises, ordVars>>

\* ----------------------------------------------- handle_request: proposer role

\* The requests counted by count (proposes, queries) over the nodes of S.
RECURSIVE Total(_, _)
Total(count, S) ==
    IF S = {} THEN 0
    ELSE LET i == CHOOSE i \in S : TRUE
         IN count[i] + Total(count, S \ {i})

\* Proposal { seq, value: None, wanted_value: value, highest_seq: None, .. }
NewProposal(seq, value) ==
    [seq |-> seq, value |-> None, wanted_value |-> value, highest_seq |-> None,
     prepared |-> {}, accepted |-> {}]

\* Request::Propose { value }, sent by the client (src = 0), handled when the
\* clock reads clock' (time does not run backwards).  The handler reads
\* neither chosen nor the proposal it replaces.
ProposeAt(n, value, maxProposes) ==
    /\ panicked[n] = ""
    /\ proposes[n] < (IF n = Reproposer THEN MaxProposesPerNode ELSE 1)
    /\ Total(proposes, Nodes) < maxProposes
    /\ \E now \in clock..(IF Total(proposes, Nodes) = 0 THEN clock ELSE MaxClock) :
          clock' = now
    /\ LET seq == next_seq(n) IN
         /\ proposal' = [proposal EXCEPT ![n] = Some(NewProposal(seq, value))]
         /\ msgs' = msgs (+) Outgoing(n, peers_id[n], ReqPrepare(seq))
         /\ issued' = [issued EXCEPT ![n] = Append(@, seq)]
    /\ proposes' = [proposes EXCEPT ![n] = @ + 1]
    /\ proposed' = proposed \cup {value}
    /\ UNCHANGED <<peers_id, last_promised, last_accepted_proposal, chosen,
                   panicked, accepts, sentAccepts, learned, queries, promises,
                   ordVars>>

\* Response::Query { val: None } whatever was learned
MutQueryAnswerNone(n) == RespQuery(None)

\* Response::Query { val: self.chosen }
QueryAnswer(n) == RespQuery(chosen[n])

\* Request::Query from src (the client, src = 0).
Query(n, src) ==
    /\ panicked[n] = ""
    /\ Total(queries, Nodes) < MaxQueries
    /\ queries' = [queries EXCEPT ![n] = @ + 1]
    /\ msgs' = msgs (+) Outgoing(n, Unicast(src), QueryAnswer(n))
    /\ UNCHANGED <<nodeVars, clock, proposes, issued, proposed, accepts,
                   sentAccepts, learned, promises, ordVars>>

\* ---------------------------------------------- handle_response: proposer role

\* proposal.prepared.len() <= self.peers_id.len() / 2 + 1, the left operand
\* of the && that decides whether highest_seq.get_or_insert(seq) runs at all.
WithinMajority(n, prepared) == Cardinality(prepared) <= Majority(n)

\* proposal.highest_seq after get_or_insert(seq): set once, never raised.
highest_seq_after(n, p, prepared, accepted_proposal) ==
    IF /\ is_some(accepted_proposal)
       /\ WithinMajority(n, prepared)
       /\ is_none(p.highest_seq)
    THEN Some(unwrap(accepted_proposal).seq)
    ELSE p.highest_seq

\* proposal.value after the promise: Some(val) when seq >= highest_seq.
value_after(n, p, prepared, accepted_proposal) ==
    IF /\ is_some(accepted_proposal)
       /\ WithinMajority(n, prepared)
       /\ SeqGe(unwrap(accepted_proposal).seq,
                unwrap(highest_seq_after(n, p, prepared, accepted_proposal)))
    THEN Some(unwrap(accepted_proposal).val)
    ELSE p.value

\* proposal.value.unwrap_or_default() in place of get_or_insert(wanted_value)
MutAcceptValueDefault(value, wanted_value) ==
    IF is_some(value) THEN unwrap(value) ELSE 0

\* *proposal.value.get_or_insert(proposal.wanted_value)
AcceptValue(value, wanted_value) ==
    IF is_some(value) THEN unwrap(value) ELSE wanted_value

\* the proposer leaves itself out of the destinations
MutAcceptDstOthers(n, prepared) == prepared \ {n}

\* dst: proposal.prepared.clone()
AcceptDst(n, prepared) == prepared

\* Response::Prepare(accepted_proposal)
HandleRespPrepare(n, m) ==
    /\ Receives(n, m)
    /\ m.dgram.type = "RespPrepare"
    /\ UNCHANGED <<peers_id, last_promised, last_accepted_proposal, chosen, clock,
                   proposes, issued, proposed, accepts, learned, queries, promises,
                   ordVars>>
    /\ IF is_none(proposal[n])
       THEN /\ panicked' = [panicked EXCEPT ![n] = "no proposal (prepare)"]
            /\ msgs' = Delivered(m)
            /\ UNCHANGED <<proposal, sentAccepts>>
       ELSE LET p == unwrap(proposal[n])
                prepared == p.prepared \cup {m.src}
                highest == highest_seq_after(n, p, prepared, m.dgram.accepted)
                adopted == value_after(n, p, prepared, m.dgram.accepted)
                fire == Cardinality(prepared) = Majority(n)
                value == AcceptValue(adopted, p.wanted_value)
            IN  /\ UNCHANGED panicked
                /\ proposal' = [proposal EXCEPT ![n] = Some(
                     [p EXCEPT !.prepared = prepared,
                               !.highest_seq = highest,
                               !.value = IF fire THEN Some(value) ELSE adopted])]
                /\ IF fire
                   THEN /\ msgs' = Delivered(m) (+)
                             Outgoing(n, AcceptDst(n, prepared), ReqAccept(p.seq, value))
                        /\ sentAccepts' = sentAccepts \cup
                             {[src |-> n, seq |-> p.seq, value |-> value,
                               dst |-> AcceptDst(n, prepared)]}
                   ELSE /\ msgs' = Delivered(m)
                        /\ UNCHANGED sentAccepts

\* dst: proposal.accepted.clone(), as the Accept goes to proposal.prepared
MutLearnDstAccepted(n, accepted) == accepted

\* dst: self.peers_id.clone()
LearnDst(n, accepted) == peers_id[n]

\* the Accepted counted whatever its seq
MutAcceptedMatchesAny(seq, p) == TRUE

\* seq == proposal.seq
AcceptedMatches(seq, p) == seq = p.seq

\* Response::Accepted { seq }
HandleAccepted(n, m) ==
    /\ Receives(n, m)
    /\ m.dgram.type = "Accepted"
    /\ UNCHANGED <<peers_id, last_promised, last_accepted_proposal, chosen, clock,
                   histVars, ordVars>>
    /\ IF is_none(proposal[n])
       THEN /\ panicked' = [panicked EXCEPT ![n] = "no proposal (accepted)"]
            /\ msgs' = Delivered(m)
            /\ UNCHANGED proposal
       ELSE LET p == unwrap(proposal[n])
                accepted == p.accepted \cup {m.src}
            IN  IF ~AcceptedMatches(m.dgram.seq, p)
                THEN /\ msgs' = Delivered(m)
                     /\ UNCHANGED <<proposal, panicked>>
                ELSE /\ proposal' = [proposal EXCEPT ![n] =
                          Some([p EXCEPT !.accepted = accepted])]
                     /\ IF Cardinality(accepted) # 1 + Cardinality(peers_id[n]) \div 2
                        THEN /\ msgs' = Delivered(m)
                             /\ UNCHANGED panicked
                        ELSE IF is_none(p.value)
                        THEN /\ panicked' = [panicked EXCEPT ![n] = "value assertion"]
                             /\ msgs' = Delivered(m)
                        ELSE /\ msgs' = Delivered(m) (+)
                                  Outgoing(n, LearnDst(n, accepted),
                                           ReqLearn(unwrap(p.value)))
                             /\ UNCHANGED panicked

\* Response::Query { val }: the answer is logged.
HandleRespQuery(n, m) ==
    /\ Receives(n, m)
    /\ m.dgram.type = "RespQuery"
    /\ msgs' = Delivered(m)
    /\ UNCHANGED <<nodeVars, clock, histVars, ordVars>>

\* --------------------------------------------------------------- executions

\* Spec: the three replicas, the client sending MaxProposes Propose requests
\* as the repository's test does (propose(i, i)), every message delayed,
\* reordered or never delivered.
Next ==
    \/ \E n \in Proposers : ProposeAt(n, n, MaxProposes)
    \/ \E m \in InFlight : HandlePrepare(m.dst, m)
    \/ \E m \in InFlight : HandleAccept(m.dst, m)
    \/ \E m \in InFlight : HandleLearn(m.dst, m)
    \/ \E m \in InFlight : HandleRespPrepare(m.dst, m)
    \/ \E m \in InFlight : HandleAccepted(m.dst, m)

Spec == Init /\ [][Next]_vars

\* SpecRace: the same cluster with its last replica unreachable (every
\* connect to it fails, so what is sent to it is never delivered) and the
\* client sending RaceProposes Propose requests.
Reachable == {m \in InFlight : m.dst # NumServers}

NextRace ==
    \/ \E n \in Proposers : ProposeAt(n, n, RaceProposes)
    \/ \E m \in Reachable : HandlePrepare(m.dst, m)
    \/ \E m \in Reachable : HandleAccept(m.dst, m)
    \/ \E m \in Reachable : HandleLearn(m.dst, m)
    \/ \E m \in Reachable : HandleRespPrepare(m.dst, m)
    \/ \E m \in Reachable : HandleAccepted(m.dst, m)

SpecRace == Init /\ [][NextRace]_vars

\* SpecLive: one Propose of any value to any replica, Query requests to any
\* node, and no loss: run() drains the mailbox, so a message in flight is
\* eventually handled.
Handle(m) ==
    \/ HandlePrepare(m.dst, m)
    \/ HandleAccept(m.dst, m)
    \/ HandleLearn(m.dst, m)
    \/ HandleRespPrepare(m.dst, m)
    \/ HandleAccepted(m.dst, m)
    \/ HandleRespQuery(m.dst, m)

NextLive ==
    \/ \E n \in Servers, v \in Values : ProposeAt(n, v, 1)
    \/ \E n \in Nodes : Query(n, Client)
    \/ \E m \in InFlight : Handle(m)

SpecLive ==
    /\ Init
    /\ [][NextLive]_vars
    /\ WF_vars(\E m \in InFlight : Handle(m))

\* SpecSolo: start_servers(1, port), the cluster of one replica whose peer
\* set is itself; one Propose of any value, Query requests, no loss.
Solo == Reproposer

InitSolo ==
    /\ NodeInit([id \in Nodes |-> {Solo}])
    /\ operands = <<>>
    /\ orderings = <<>>

NextSolo ==
    \/ \E v \in Values : ProposeAt(Solo, v, 1)
    \/ \E n \in {Client, Solo} : Query(n, Client)
    \/ \E m \in InFlight : Handle(m)

SpecSolo ==
    /\ InitSolo
    /\ [][NextSolo]_vars
    /\ WF_vars(\E m \in InFlight : Handle(m))

\* SpecAdopt: start_servers(2 * NumServers - 1, port), the cluster in which
\* the replicas 1..NumServers are exactly a majority.  The other replicas
\* have proposed at the clock readings 1..MaxClock and are unreachable since;
\* an Accept of theirs has or has not reached each replica of the majority,
\* which promised the ballot it accepted.  The client then sends one Propose
\* to the first replica, whose Prepare and promises are delivered in any
\* order.  The history variables record what happens from this state on.
WideServers == 1..(2 * NumServers - 1)

EarlierBallots ==
    {SequenceNumber(k, ts) : k \in WideServers \ Servers, ts \in 1..MaxClock}

EarlierAccepted ==
    {None} \cup {Some(AcceptedProposal(seq, val)) :
                     seq \in EarlierBallots, val \in Values}

InitAdopt ==
    /\ peers_id = [id \in Nodes |-> WideServers]
    /\ proposal = [n \in Nodes |-> None]
    /\ last_accepted_proposal \in [Nodes -> EarlierAccepted]
    /\ last_accepted_proposal[Client] = None
    /\ \A i, j \in Servers :
          LET x == last_accepted_proposal[i]
              y == last_accepted_proposal[j]
          IN  (is_some(x) /\ is_some(y) /\ unwrap(x).seq = unwrap(y).seq) =>
                  x = y
    /\ last_promised = [n \in Nodes |->
          IF is_some(last_accepted_proposal[n])
          THEN Some(unwrap(last_accepted_proposal[n]).seq)
          ELSE None]
    /\ chosen = [n \in Nodes |-> None]
    /\ panicked = [n \in Nodes |-> ""]
    /\ msgs = EmptyBag
    /\ clock = MaxClock + 1
    /\ proposes = [n \in Nodes |-> 0]
    /\ issued = [n \in Nodes |-> <<>>]
    /\ proposed = {}
    /\ accepts = {}
    /\ sentAccepts = {}
    /\ learned = {}
    /\ queries = [n \in Nodes |-> 0]
    /\ promises = {}
    /\ operands = <<>>
    /\ orderings = <<>>

NextAdopt ==
    \/ \E v \in Values : ProposeAt(Reproposer, v, 1)
    \/ \E m \in InFlight : m.dst \in Servers /\ HandlePrepare(m.dst, m)
    \/ \E m \in InFlight : m.dst \in Servers /\ HandleRespPrepare(m.dst, m)

SpecAdopt == InitAdopt /\ [][NextAdopt]_vars

\* SpecStray: the cluster of Spec, with NumStray Response::Accepted
\* datagrams written to the ports of any replicas by a sender that is no
\* replica, with the source id the console uses: Proxy::serve_inflow hands
\* a node whatever it decodes.  The datagrams are in flight from the start
\* and the seq of each is a ballot the proposing replica can issue.  The
\* client sends StrayProposes Propose requests, of any value, to one replica.
StraySeqs == {SequenceNumber(Reproposer, ts) : ts \in 1..MaxClock}

StrayAccepted(n, seq) == Outgoing(Client, {n}, RespAccepted(seq))

\* The datagrams strays[1], .., strays[k], each a <<replica, seq>>, in flight.
RECURSIVE Strays(_, _)
Strays(strays, k) ==
    IF k = 0 THEN EmptyBag
    ELSE Strays(strays, k - 1) (+) StrayAccepted(strays[k][1], strays[k][2])

InitStray ==
    /\ peers_id = start_servers
    /\ proposal = [n \in Nodes |-> None]
    /\ last_promised = [n \in Nodes |-> None]
    /\ last_accepted_proposal = [n \in Nodes |-> None]
    /\ chosen = [n \in Nodes |-> None]
    /\ panicked = [n \in Nodes |-> ""]
    /\ \E strays \in [1..NumStray -> Servers \X StraySeqs] :
          msgs = Strays(strays, NumStray)
    /\ clock = 1
    /\ proposes = [n \in Nodes |-> 0]
    /\ issued = [n \in Nodes |-> <<>>]
    /\ proposed = {}
    /\ accepts = {}
    /\ sentAccepts = {}
    /\ learned = {}
    /\ queries = [n \in Nodes |-> 0]
    /\ promises = {}
    /\ operands = <<>>
    /\ orderings = <<>>

NextStray ==
    \/ \E v \in Values : ProposeAt(Reproposer, v, StrayProposes)
    \/ \E m \in InFlight : HandlePrepare(m.dst, m)
    \/ \E m \in InFlight : HandleAccept(m.dst, m)
    \/ \E m \in InFlight : HandleLearn(m.dst, m)
    \/ \E m \in InFlight : HandleRespPrepare(m.dst, m)
    \/ \E m \in InFlight : HandleAccepted(m.dst, m)

SpecStray ==
    /\ InitStray
    /\ [][NextStray]_vars

\* SpecOrd: SequenceNumber::cmp on its own.  The operands are any three
\* SequenceNumbers a node id and a clock reading can make; Compare applies
\* cmp to the pairs of them.
SequenceNumbers ==
    {SequenceNumber(id, ts) : id \in Nodes, ts \in 0..MaxClock}

InitOrd ==
    /\ NodeInit(start_servers)
    /\ operands \in SequenceNumbers \X SequenceNumbers \X SequenceNumbers
    /\ orderings = <<>>

Compare ==
    /\ orderings = <<>>
    /\ LET a == operands[1]
           b == operands[2]
           c == operands[3]
       IN  orderings' = [ab |-> cmp(a, b), ba |-> cmp(b, a),
                         bc |-> cmp(b, c), ac |-> cmp(a, c)]
    /\ UNCHANGED <<nodeVars, msgs, clock, histVars, operands>>

NextOrd == Compare

SpecOrd == InitOrd /\ [][NextOrd]_vars

\* ------------------------------------------------------------------- claims

\* C1. Agreement: any two replicas that have chosen have chosen the same
\* value.
Agreement ==
    \A i, j \in Servers :
        (is_some(chosen[i]) /\ is_some(chosen[j])) => chosen[i] = chosen[j]

\* C2. Chosen is stable per replica: once a replica has chosen a value, no
\* step changes it and no Learn delivered to the replica fails the assertion
\* of the Learn handler.
ChosenStable ==
    [][\A n \in Servers :
          is_some(chosen[n]) =>
              /\ chosen'[n] = chosen[n]
              /\ panicked'[n] # "learn assertion"]_vars

\* C3. Validity: a chosen value is the value of some Propose request the
\* client sent and a replica handled.
Validity ==
    \A n \in Servers : is_some(chosen[n]) => unwrap(chosen[n]) \in proposed

\* A replica has chosen while two proposers with different values raced.
ValidityWitness ==
    \E n \in Servers :
        /\ is_some(chosen[n])
        /\ Cardinality(proposed) = 2
        /\ \E i \in Servers : proposes[i] = 1 /\ is_some(proposal[i])
              /\ unwrap(proposal[i]).value = Some(unwrap(chosen[n]))
              /\ unwrap(proposal[i]).wanted_value # unwrap(chosen[n])

\* C4. Promise monotonicity: no step lowers a replica's last_promised under
\* the order of SequenceNumber, or resets it to None.
PromiseMonotone ==
    [][\A n \in Servers :
          is_some(last_promised[n]) =>
              /\ is_some(last_promised'[n])
              /\ SeqLe(unwrap(last_promised[n]), unwrap(last_promised'[n]))]_vars

\* A replica that has promised a ballot has dropped a Prepare of a lower one.
PromiseMonotoneWitness ==
    \E n \in Servers, i \in Servers :
        /\ Len(issued[i]) > 0
        /\ is_some(last_promised[n])
        /\ SeqLt(issued[i][1], unwrap(last_promised[n]))
        /\ \A m \in InFlight :
              ~(m.dst = n /\ m.dgram = ReqPrepare(issued[i][1]))
        /\ \A m \in InFlight :
              ~(m.src = n /\ m.dst = i /\ m.dgram.type = "RespPrepare")
        /\ n \notin unwrap(proposal[i]).prepared

\* C5. Accepted bounded by promised: the ballot of a replica's
\* last_accepted_proposal is at most its last_promised.
AcceptedBoundedByPromised ==
    \A n \in Servers :
        (is_some(last_accepted_proposal[n]) /\ is_some(last_promised[n])) =>
            SeqLe(unwrap(last_accepted_proposal[n]).seq, unwrap(last_promised[n]))

\* C6. Ballot uniqueness: the time_stamp of the ballots one replica issues
\* strictly increases from one Propose to the next.
BallotUniqueness ==
    \A n \in Servers : \A k \in 1..(Len(issued[n]) - 1) :
        issued[n][k].time_stamp < issued[n][k + 1].time_stamp

\* A majority of the peers has recorded (seq, val) by an Accept.
MajorityRecorded(seq, val) ==
    \E Q \in SUBSET Servers :
        /\ Cardinality(Q) >= Majority(Client)
        /\ \A a \in Q : [acc |-> a, seq |-> seq, val |-> val] \in accepts

\* C7. A late proposer adopts the prior value: once a majority has recorded
\* (s1, v), every Accept sent from then on with a ballot above s1 carries v,
\* and the value a replica chooses is v.
LateProposerAdopts ==
    [][\A r \in accepts :
          MajorityRecorded(r.seq, r.val) =>
              /\ \A a \in sentAccepts' \ sentAccepts :
                    SeqLt(r.seq, a.seq) => a.value = r.val
              /\ \A n \in Servers :
                    is_some(chosen'[n]) => unwrap(chosen'[n]) = r.val]_vars

\* Every replica has chosen v.
AllChosen(v) == \A n \in Servers : chosen[n] = Some(v)

\* The answer of node n to a Query of the client, as a message in flight.
Answer(n, val) == [src |-> n, dst |-> Client, dgram |-> RespQuery(val)]

\* C8. Liveness with a single proposer: after the one Propose{v}, with no
\* message lost, eventually every replica has chosen v for good, and a Query
\* a replica handles from then on is answered with Some(v).
SingleProposerLiveness ==
    /\ \A v \in Values : (proposed = {v}) ~> [](AllChosen(v))
    /\ [][\A v \in Values, n \in Servers :
             (AllChosen(v) /\ queries'[n] > queries[n]) =>
                 CopiesIn(Answer(n, Some(v)), msgs') =
                     CopiesIn(Answer(n, Some(v)), msgs) + 1]_vars

\* Every replica has chosen the proposed value and one has answered a Query
\* with it.
SingleProposerWitness ==
    \E v \in Values, n \in Servers :
        /\ proposed = {v}
        /\ AllChosen(v)
        /\ queries[n] > 0
        /\ BagIn(Answer(n, Some(v)), msgs)

\* C9. Propose after decision is dropped: a replica that has chosen and
\* handles a Propose allocates no ballot, keeps its proposal, emits nothing
\* and leaves last_promised, last_accepted_proposal and chosen alone.
ProposeAfterChosenDropped ==
    [][\A n \in Servers :
          (is_some(chosen[n]) /\ proposes'[n] > proposes[n]) =>
              /\ issued'[n] = issued[n]
              /\ proposal'[n] = proposal[n]
              /\ msgs' = msgs
              /\ UNCHANGED <<last_promised, last_accepted_proposal, chosen>>]_vars

\* C10. Query is a pure read: handling a Query of the client emits exactly
\* one message, Response::Query with the node's chosen, to the client, and
\* changes nothing of the node; a node that handled no Learn answers None.
QueryPureRead ==
    [][\A n \in Nodes :
          queries'[n] > queries[n] =>
              /\ msgs' = msgs (+) SetToBag({Answer(n, chosen[n])})
              /\ UNCHANGED <<proposal, last_promised, last_accepted_proposal,
                             chosen, panicked>>
              /\ n \notin learned =>
                    CopiesIn(Answer(n, None), msgs') =
                        CopiesIn(Answer(n, None), msgs) + 1]_vars

\* A replica that has learned a value has answered a Query with it, and a
\* node that has not has answered None.
QueryPureReadWitness ==
    /\ \E n \in Servers, v \in Values :
          n \in learned /\ BagIn(Answer(n, Some(v)), msgs)
    /\ \E n \in Nodes : n \notin learned /\ BagIn(Answer(n, None), msgs)

\* C11. SequenceNumber comparison is a total order: any two SequenceNumbers
\* compare Less, Equal or Greater; it is antisymmetric and transitive; the
\* earlier time_stamp is Less whatever the server_id, and at equal
\* time_stamp the lower server_id is Less; two SequenceNumbers compare
\* Equal exactly when both fields are equal.
CmpTotalOrder ==
    orderings # <<>> =>
        LET a == operands[1]
            b == operands[2]
            c == operands[3]
            o == orderings
        IN  /\ o.ab \in {Less, Equal, Greater}
            /\ (o.ab = Less) <=> (o.ba = Greater)
            /\ (o.ab = Equal) <=> (o.ba = Equal)
            /\ (o.ab # Greater /\ o.ba # Greater) => a = b
            /\ (o.ab # Greater /\ o.bc # Greater) => o.ac # Greater
            /\ a.time_stamp < b.time_stamp => o.ab = Less
            /\ (a.time_stamp = b.time_stamp /\ a.server_id < b.server_id) =>
                   o.ab = Less
            /\ (o.ab = Equal) <=>
                   (a.time_stamp = b.time_stamp /\ a.server_id = b.server_id)

\* cmp has ordered a chain a < b < c whose first step is decided by the
\* server_id against the order of the ids and whose second by the
\* time_stamp.
CmpTotalOrderWitness ==
    /\ orderings # <<>>
    /\ operands[1].time_stamp = operands[2].time_stamp
    /\ operands[2].time_stamp < operands[3].time_stamp
    /\ operands[3].server_id < operands[1].server_id
    /\ orderings.ab = Less
    /\ orderings.bc = Less
    /\ orderings.ac = Less

\* No message of the protocol is in flight: the answers to Query are all
\* that may be.
Quiet == \A m \in InFlight : m.dgram.type = "RespQuery"

\* C12. Single-replica boundary: the replica whose peer set is itself
\* chooses the value of its Propose once the Prepare, promise, Accept,
\* Accepted and Learn it sends to itself are delivered, and keeps it; every
\* message in flight is between the replica and itself or the client.
SoloChoosesOwn ==
    /\ \A v \in Values : (proposed = {v}) ~> [](chosen[Solo] = Some(v))
    /\ [](\A v \in Values : (proposed = {v} /\ Quiet) => chosen[Solo] = Some(v))
    /\ [](\A m \in InFlight : {m.src, m.dst} \subseteq {Client, Solo})

\* The single replica has promised and accepted its own ballot and has
\* chosen the value proposed to it.
SoloChoosesOwnWitness ==
    \E v \in Values :
        /\ proposed = {v}
        /\ Quiet
        /\ chosen[Solo] = Some(v)
        /\ unwrap(proposal[Solo]).prepared = {Solo}
        /\ unwrap(proposal[Solo]).accepted = {Solo}
        /\ promises = {[acc |-> Solo, seq |-> unwrap(proposal[Solo]).seq]}

\* The value the adopt rule asks for: the val of the accepted proposal with
\* the highest seq among carried, wanted_value when none was carried.
HighestAcceptedValue(carried, wanted_value) ==
    IF \A o \in carried : is_none(o)
    THEN wanted_value
    ELSE LET top == CHOOSE o \in carried :
                       /\ is_some(o)
                       /\ \A q \in carried :
                             is_some(q) => SeqLe(unwrap(q).seq, unwrap(o).seq)
         IN  unwrap(top).val

\* C13. Adopt-highest-accepted-value rule: the value of an Accept, when it
\* is sent, is the val of the accepted proposal with the highest seq among
\* those the counted promises carried (each counted replica's promise
\* carried its last_accepted_proposal), in any arrival order; want_value
\* when none carried one.
AdoptHighest ==
    [][\A a \in sentAccepts' \ sentAccepts :
          LET p == unwrap(proposal'[a.src])
          IN  a.value = HighestAcceptedValue(
                            {last_accepted_proposal[s] : s \in p.prepared},
                            p.wanted_value)]_vars

\* The step puts an Accept of node n in flight.
AcceptEmitted(n) ==
    \E m \in BagToSet(msgs') :
        /\ m.src = n
        /\ m.dgram.type = "Accept"
        /\ CopiesIn(m, msgs') > CopiesIn(m, msgs)

\* C14. The Preparing -> Accepting transition fires once per proposal: a
\* step emits the Accept of a proposal only when it brings |prepared| to
\* the majority threshold from below, so no promise that arrives after the
\* threshold was reached emits it again.
AcceptFiresOnce ==
    [][\A n \in Servers :
          AcceptEmitted(n) =>
              Cardinality(unwrap(proposal[n]).prepared) < Majority(n)]_vars

\* The step brings |prepared| of node n's proposal to the majority
\* threshold from below.
ReachesMajority(n) ==
    /\ is_some(proposal[n])
    /\ proposes'[n] = proposes[n]
    /\ Cardinality(unwrap(proposal[n]).prepared) < Majority(n)
    /\ Cardinality(unwrap(proposal'[n]).prepared) = Majority(n)

\* The step takes a promise from node n's mailbox and emits, to every
\* member of dst and to nobody else, Request::Accept with the seq of the
\* proposal and its value, which is wanted_value when neither the proposal
\* nor the promise held one.
AcceptSentTo(n, dst) ==
    \E m \in InFlight :
        /\ m.dst = n
        /\ m.dgram.type = "RespPrepare"
        /\ LET p == unwrap(proposal[n])
               value == unwrap(unwrap(proposal'[n]).value)
           IN  /\ msgs' = Delivered(m) (+)
                           Outgoing(n, dst, ReqAccept(p.seq, value))
               /\ (is_none(p.value) /\ is_none(m.dgram.accepted)) =>
                      value = p.wanted_value

\* C15 as stated. When |prepared| first reaches the majority threshold the
\* proposer sends Accept{seq = proposal.seq, value = proposal.value or
\* want_value} to peers_id, the full peer set.
AcceptToPeers ==
    [][\A n \in Servers :
          ReachesMajority(n) => AcceptSentTo(n, peers_id[n])]_vars

\* C15, amended. When |prepared| first reaches the majority threshold the
\* proposer sends Accept{seq = proposal.seq, value = proposal.value or
\* want_value} to the replicas of prepared, the majority of peers_id whose
\* promises it has counted, and to no other peer.
AcceptToPrepared ==
    [][\A n \in Servers :
          ReachesMajority(n) =>
              /\ AcceptSentTo(n, unwrap(proposal'[n]).prepared)
              /\ unwrap(proposal'[n]).prepared \subseteq peers_id[n]]_vars

\* A proposer has sent its Accept to the two replicas whose promises it
\* counted, the Accept is in flight to both and to no third peer.
AcceptToPreparedWitness ==
    \E a \in sentAccepts :
        /\ Cardinality(a.dst) = Majority(a.src)
        /\ a.dst # peers_id[a.src]
        /\ unwrap(proposal[a.src]).prepared = a.dst
        /\ \A d \in peers_id[a.src] :
              BagIn([src |-> a.src, dst |-> d,
                     dgram |-> ReqAccept(a.seq, a.value)], msgs) <=> d \in a.dst

\* C16. The prepared set of a replica's active proposal holds only
\* replicas that have promised the seq of that proposal: a promise that
\* answers a superseded ballot of the proposer is not counted.
PreparedPromisedOwnSeq ==
    \A n \in Servers :
        is_some(proposal[n]) =>
            \A s \in unwrap(proposal[n]).prepared :
                [acc |-> s, seq |-> unwrap(proposal[n]).seq] \in promises

\* Request m is a Prepare or an Accept below the promise of its
\* destination.
LowBallot(m) ==
    /\ m.dgram.type \in {"Prepare", "Accept"}
    /\ is_some(last_promised[m.dst])
    /\ SeqLt(m.dgram.seq, unwrap(last_promised[m.dst]))

\* C17. Low-ballot requests are dropped silently: the step in which a
\* replica handles a Prepare or an Accept whose seq is below its
\* last_promised takes the request from the mailbox, emits nothing and
\* leaves last_promised, last_accepted_proposal, proposal and chosen as
\* they were.
LowBallotDropped ==
    [][\A m \in InFlight :
          (LowBallot(m) /\ CopiesIn(m, msgs') < CopiesIn(m, msgs)) =>
              /\ msgs' = Delivered(m)
              /\ UNCHANGED <<last_promised, last_accepted_proposal, proposal,
                             chosen, panicked>>]_vars

\* A replica has handled a Prepare without promising it and an Accept
\* without recording it, each of a ballot below its last_promised.
LowBallotDroppedWitness ==
    /\ \E i \in Servers, n \in Servers : \E k \in 1..Len(issued[i]) :
          /\ is_some(last_promised[n])
          /\ SeqLt(issued[i][k], unwrap(last_promised[n]))
          /\ ~BagIn([src |-> i, dst |-> n, dgram |-> ReqPrepare(issued[i][k])], msgs)
          /\ [acc |-> n, seq |-> issued[i][k]] \notin promises
    /\ \E a \in sentAccepts : \E n \in a.dst :
          /\ is_some(last_promised[n])
          /\ SeqLt(a.seq, unwrap(last_promised[n]))
          /\ ~BagIn([src |-> a.src, dst |-> n,
                     dgram |-> ReqAccept(a.seq, a.value)], msgs)
          /\ [acc |-> n, seq |-> a.seq, val |-> a.value] \notin accepts

\* Response m is an Accepted that finds no active proposal at its
\* destination, or one of another seq.
StaleAccepted(m) ==
    /\ m.dgram.type = "Accepted"
    /\ \/ is_none(proposal[m.dst])
       \/ m.dgram.seq # unwrap(proposal[m.dst]).seq

\* C18. Stale Accepted responses are dropped: the step in which a replica
\* handles an Accepted while it has no active proposal, or one whose seq
\* differs, takes the response from the mailbox, emits nothing, leaves the
\* replica running and leaves proposal (its accepted set included),
\* last_promised, last_accepted_proposal and chosen as they were.
StaleAcceptedDropped ==
    [][\A m \in InFlight :
          (StaleAccepted(m) /\ CopiesIn(m, msgs') < CopiesIn(m, msgs)) =>
              /\ msgs' = Delivered(m)
              /\ panicked'[m.dst] = ""
              /\ UNCHANGED <<proposal, last_promised, last_accepted_proposal,
                             chosen>>]_vars

\* C18, with the replica that has no proposal stopping.  The step in which
\* a replica handles an Accepted whose seq differs from its proposal's takes
\* the response from the mailbox, emits nothing and leaves the replica
\* running; the step in which a replica with no proposal handles an
\* Accepted takes it from the mailbox, emits nothing and is the replica's
\* panic "recv an accepted response, but no proposal presented".  Both
\* leave proposal (its accepted set included), last_promised,
\* last_accepted_proposal and chosen as they were.
StaleAcceptedHandled ==
    [][\A m \in InFlight :
          (StaleAccepted(m) /\ CopiesIn(m, msgs') < CopiesIn(m, msgs)) =>
              /\ msgs' = Delivered(m)
              /\ panicked' =
                    IF is_none(proposal[m.dst])
                    THEN [panicked EXCEPT ![m.dst] = "no proposal (accepted)"]
                    ELSE panicked
              /\ UNCHANGED <<proposal, last_promised, last_accepted_proposal,
                             chosen>>]_vars

\* Both cases have happened.  No Accepted from outside the cluster is left
\* in flight, so each of the NumStray of them was handled.  One replica,
\* which never proposed, stopped with the panic of the Accepted arm: it
\* handled one of them, its first, with no proposal.  No other node
\* stopped, so no other node without a proposal handled one, and the
\* proposing replica handled the rest: it is running, so it had its
\* proposal by then, and the sender is not in its accepted set, so the seq
\* differed and the response was dropped.
StaleAcceptedHandledWitness ==
    /\ \A m \in InFlight : m.src # Client
    /\ \E n \in Servers \ {Reproposer} :
          /\ panicked[n] = "no proposal (accepted)"
          /\ \A o \in Nodes \ {n} : panicked[o] = ""
    /\ is_some(proposal[Reproposer])
    /\ Client \notin unwrap(proposal[Reproposer]).accepted

\* C19. One value per ballot: any two Accepts ever sent with the same
\* SequenceNumber carry the same value.
OneValuePerBallot ==
    \A a, b \in sentAccepts : a.seq = b.seq => a.value = b.value

\* C20. A Learn is broadcast only for a chosen value: when a proposer
\* emits Learn{v} for its proposal of ballot s, a majority of the peers has
\* each set last_accepted_proposal = (s, v) before.
LearnOnlyChosen ==
    [][\A m \in BagToSet(msgs') :
          (m.dgram.type = "Learn" /\ CopiesIn(m, msgs') > CopiesIn(m, msgs)) =>
              MajorityRecorded(unwrap(proposal[m.src]).seq, m.dgram.value)]_vars

\* C21. The assertion proposal.value.is_some() of the Accepted handler
\* never fails: no replica has panicked on it, also when Propose is handled
\* repeatedly on the same replica.
ValueAssertionHolds ==
    \A n \in Nodes : panicked[n] # "value assertion"

\* C22. The two "no proposal presented" panics are unreachable while the
\* client sends only Propose and Query: no replica has panicked on them,
\* and every Response::Prepare or Response::Accepted in flight is addressed
\* to a replica whose proposal is set.
NoProposalPanicUnreachable ==
    /\ \A n \in Nodes :
          panicked[n] \notin {"no proposal (prepare)", "no proposal (accepted)"}
    /\ \A m \in InFlight :
          m.dgram.type \in {"RespPrepare", "Accepted"} => is_some(proposal[m.dst])

\* A proposer has counted promises and Accepted responses and runs on, and
\* the client's node, which has no proposal, has handled the answer to a
\* Query.
NoProposalPanicWitness ==
    /\ \E n \in Servers :
          /\ is_some(proposal[n])
          /\ unwrap(proposal[n]).prepared # {}
          /\ unwrap(proposal[n]).accepted # {}
          /\ panicked[n] = ""
    /\ is_none(proposal[Client])
    /\ panicked[Client] = ""
    /\ Total(queries, Nodes) > 0
    /\ \A m \in InFlight : m.dgram.type # "RespQuery"

=============================================================================
